---- MODULE Spec2Model ----
(***************************************************************************)
(* Model of the docker-help terminal dashboard (src/main.go).              *)
(*                                                                         *)
(* Strings whose characters the code inspects (container names, raw log    *)
(* bytes) are sequences of character codes; strings the code only copies   *)
(* or compares for equality are TLA+ strings.  Durations are whole         *)
(* seconds (time.Second = 1).  Text written to a pane is the record of the *)
(* values that the code formats into it.                                   *)
(***************************************************************************)
EXTENDS Integers, Sequences, FiniteSets, TLC

VARIABLES
    pc,           \* position of main: "startup" (line 55), "running" (ui.Run), "stopped"
    containers,   \* App.containers
    table,        \* rows of App.table; table[1] is the header row (row 0)
    selectedRow,  \* selected row of App.table (0 = header row)
    details,      \* text of App.details
    logs,         \* text of App.logs
    statusBar,    \* text of App.statusBar, after the wall-clock prefix
    calls,        \* remote-call events of the handler that ran last
    lookups,      \* indices of App.containers read by the handler that ran last
    ev,           \* the input event handled last, with the daemon's answers
    sortIn,       \* SortSpec: the record list handed to the list builder
    sortOut,      \* SortSpec: the summary list built from it
    elapsed,      \* SinceSpec: time.Since(started), whole seconds
    ago           \* SinceSpec: the relative-time string built from it

vars == <<pc, containers, table, selectedRow, details, logs, statusBar, calls,
          lookups, ev, sortIn, sortOut, elapsed, ago>>

uiVars == <<containers, table, selectedRow, details, logs, statusBar, calls, lookups, ev>>
sortVars == <<sortIn, sortOut>>
sinceVars == <<elapsed, ago>>

----------------------------------------------------------------------------
(* Bounds *)

MaxLen == 2          \* longest list the daemon returns in Spec
MaxSortLen == 3      \* longest list handed to the builder in SortSpec
MaxElapsed == 180000 \* longest elapsed time in SinceSpec, seconds

----------------------------------------------------------------------------
(* Character codes and strings *)

Slash == 47   \* "/"
CR == 13      \* "\r"

\* the characters strings.TrimSpace removes: \t \n \v \f \r and space
WhiteSpace == {9, 10, 11, 12, 13, 32}

Min2(x, y) == IF x < y THEN x ELSE y

\* Go's string `<`: bytewise lexicographic, a proper prefix is smaller
StrLess(s, t) ==
    \/ \E i \in 1..Min2(Len(s), Len(t)) :
          /\ s[i] < t[i]
          /\ \A j \in 1..(i - 1) : s[j] = t[j]
    \/ /\ Len(s) < Len(t)
       /\ \A j \in 1..Len(s) : s[j] = t[j]

\* strings.TrimPrefix(s, "/")
TrimSlashPrefix(s) == IF Len(s) > 0 /\ s[1] = Slash THEN Tail(s) ELSE s

firstName(names) == IF Len(names) = 0 THEN <<>> ELSE TrimSlashPrefix(names[1])

----------------------------------------------------------------------------
(* Port formatting *)

nz(s, fallback) == IF s = "" THEN fallback ELSE s

ToLower(s) == IF s = "TCP" THEN "tcp" ELSE IF s = "UDP" THEN "udp" ELSE s

\* one entry of formatPorts; a bare private port is rendered without address
\* and public port (shown here as "" and 0)
PortEntry(p) ==
    IF p.PublicPort > 0
    THEN [addr |-> nz(p.IP, "0.0.0.0"), pub |-> p.PublicPort,
          priv |-> p.PrivatePort, proto |-> ToLower(p.Type)]
    ELSE [addr |-> "", pub |-> 0,
          priv |-> p.PrivatePort, proto |-> ToLower(p.Type)]

\* "-" for no ports, else the entries, joined with ", " in input order
formatPorts(ports) ==
    IF Len(ports) = 0 THEN [text |-> "-", entries |-> <<>>]
    ELSE [text |-> "", entries |-> [i \in 1..Len(ports) |-> PortEntry(ports[i])]]

----------------------------------------------------------------------------
(* sort.SliceStable with the comparator of refresh *)

\* less with the state test on the wrong operand
lessRunningLast(ci, cj) ==
    IF ci.State # cj.State
    THEN cj.State = "running"
    ELSE StrLess(firstName(ci.Names), firstName(cj.Names))

\* the less function of refresh (lines 124-130), on two records
less(ci, cj) ==
    IF ci.State # cj.State
    THEN ci.State = "running"
    ELSE StrLess(firstName(ci.Names), firstName(cj.Names))

Swap(s, i, j) == [s EXCEPT ![i] = s[j], ![j] = s[i]]

\* inner loop of insertionSort: for j := i; j > a && less(j, j-1); j-- { swap }
RECURSIVE SinkLeft(_, _)
SinkLeft(s, j) ==
    IF j > 1 /\ less(s[j], s[j - 1])
    THEN SinkLeft(Swap(s, j, j - 1), j - 1)
    ELSE s

\* outer loop of insertionSort: for i := a+1; i < b; i++
RECURSIVE InsertionSortFrom(_, _)
InsertionSortFrom(s, i) ==
    IF i > Len(s) THEN s
    ELSE InsertionSortFrom(SinkLeft(s, i), i + 1)

\* sort.SliceStable: slices of at most one block (20 elements) are sorted by
\* insertion sort alone; every list of the model is shorter than a block
SliceStable(s) == InsertionSortFrom(s, 2)

----------------------------------------------------------------------------
(* Text helpers of the log pipeline *)

\* strings.ReplaceAll(s, "\r", "")
StripCR(s) == SelectSeq(s, LAMBDA c : c # CR)

RECURSIVE TrimLeft(_)
TrimLeft(s) == IF Len(s) > 0 /\ s[1] \in WhiteSpace THEN TrimLeft(Tail(s)) ELSE s

RECURSIVE TrimRight(_)
TrimRight(s) ==
    IF Len(s) > 0 /\ s[Len(s)] \in WhiteSpace
    THEN TrimRight(SubSeq(s, 1, Len(s) - 1))
    ELSE s

\* strings.TrimSpace
TrimSpace(s) == TrimRight(TrimLeft(s))

\* the placeholder "(no logs)"
NoLogs == <<40, 110, 111, 32, 108, 111, 103, 115, 41>>

----------------------------------------------------------------------------
(* Time *)

Minute == 60
Hour == 3600
HoursPerDay == 24

\* a relative-time string "<n> <unit>"
Rel(n, unit) == [n |-> n, unit |-> unit]

\* since with inclusive bucket boundaries
sinceInclusive(d) ==
    IF d <= Minute THEN Rel(d, "seconds")
    ELSE IF d <= Hour THEN Rel(d \div Minute, "minutes")
    ELSE IF d <= HoursPerDay * Hour THEN Rel(d \div Hour, "hours")
    ELSE Rel(d \div (HoursPerDay * Hour), "days")

\* since, on d = time.Since(t); int(d.Seconds()), int(d.Minutes()),
\* int(d.Hours()) and int(d.Hours()/24) truncate
since(d) ==
    IF d < Minute THEN Rel(d, "seconds")
    ELSE IF d < Hour THEN Rel(d \div Minute, "minutes")
    ELSE IF d < HoursPerDay * Hour THEN Rel(d \div Hour, "hours")
    ELSE Rel(d \div (HoursPerDay * Hour), "days")

\* A time.Time is [zero |-> it is the zero instant, age |-> time.Since(it), whole
\* seconds]; a timestamp string is [valid |-> it parses as RFC3339Nano, zero, age]
ZeroTime == [zero |-> TRUE, age |-> 0]

parseTime(s) == IF s.valid THEN [zero |-> s.zero, age |-> s.age] ELSE ZeroTime

IsZero(t) == t.zero

----------------------------------------------------------------------------
(* The daemon's answers *)

\* lifecycle states of the records in Spec; their names alternate between
\* ["/b"] and ["/a"] along the daemon's answer
States == {"running", "exited"}
NamesAt(i) == IF i % 2 = 1 THEN << <<47, 98>> >> ELSE << <<47, 97>> >>

\* states and name lists in SortSpec, where several non-running states and a
\* missing name occur: [], ["/a"], ["/b"]
SortStates == {"running", "exited", "paused"}
SortNameLists == { <<>>, << <<47, 97>> >>, << <<47, 98>> >> }

ImageOf(id) == IF id % 2 = 1 THEN "nginx" ELSE "redis"
StatusOf(state) == IF state = "running" THEN "Up 2 hours" ELSE "Exited (0) 3 days ago"
PortsOf(id) ==
    IF id % 3 = 1 THEN << [IP |-> "", PublicPort |-> 8080, PrivatePort |-> 80, Type |-> "tcp"] >>
    ELSE IF id % 3 = 2 THEN << [IP |-> "", PublicPort |-> 0, PrivatePort |-> 443, Type |-> "TCP"] >>
    ELSE << >>

\* a ContainerRecord (types.Container); its identifier is its position in the
\* daemon's answer, image, status and ports follow from identifier and state
Record(id, names, state) ==
    [ID |-> id, Names |-> names, Image |-> ImageOf(id), State |-> state,
     Status |-> StatusOf(state), Ports |-> PortsOf(id)]

\* the record lists of length n over the given names and states
RecordLists(n, names, states) ==
    { [i \in 1..n |-> Record(i, f[i][1], f[i][2])] : f \in [1..n -> names \X states] }

NoErr == ""

\* answers of ContainerList: an error, or a list of at most MaxLen records
ListAnswers ==
    { [err |-> "list: daemon unreachable", list |-> <<>>] } \cup
    { [err |-> NoErr, list |-> l] :
        l \in UNION { { [i \in 1..n |-> Record(i, NamesAt(i), st[i])] : st \in [1..n -> States] } :
                       n \in 0..MaxLen } }

\* start timestamps: one that does not parse, one 90 seconds back
StartedAts ==
    { [valid |-> FALSE, zero |-> FALSE, age |-> 0],
      [valid |-> TRUE, zero |-> FALSE, age |-> 90] }

NoInspect == [err |-> NoErr, Status |-> "", StartedAt |-> [valid |-> FALSE, zero |-> FALSE, age |-> 0]]

\* answers of ContainerInspect: an error, or the live state and start timestamp
InspectAnswers ==
    { [err |-> "inspect: no such container", Status |-> "",
       StartedAt |-> [valid |-> FALSE, zero |-> FALSE, age |-> 0]] } \cup
    { [err |-> NoErr, Status |-> s, StartedAt |-> t] : s \in States, t \in StartedAts }

NoLog == [err |-> NoErr, readErr |-> NoErr, data |-> <<>>]

\* answers of ContainerLogs and of reading its stream: an error opening it, an
\* error reading it, or its bytes (" \r\n" and "\nx\r\ny \r\n" here)
LogAnswers ==
    { [err |-> "logs: not available", readErr |-> NoErr, data |-> <<>>],
      [err |-> NoErr, readErr |-> "logs: unexpected EOF", data |-> <<>>],
      [err |-> NoErr, readErr |-> NoErr, data |-> <<32, 13, 10>>],
      [err |-> NoErr, readErr |-> NoErr, data |-> <<10, 120, 13, 10, 121, 32, 13, 10>>] }

----------------------------------------------------------------------------
(* Remote calls *)

TailCount == 5

\* a call that is issued once more when it fails
CallRetried(op, id, tail, err) ==
    LET once == << [e |-> "call", op |-> op, id |-> id, tail |-> tail, ok |-> TRUE],
                   [e |-> "return", op |-> op, id |-> id, tail |-> tail, ok |-> err = NoErr] >>
    IN IF err # NoErr THEN once \o once ELSE once

\* one synchronous remote call: it is issued and it returns before the caller goes on
Call(op, id, tail, err) ==
    << [e |-> "call", op |-> op, id |-> id, tail |-> tail, ok |-> TRUE],
       [e |-> "return", op |-> op, id |-> id, tail |-> tail, ok |-> err = NoErr] >>

ListCall(la) == Call("ContainerList", 0, 0, la.err)
InspectCall(id, ia) == Call("ContainerInspect", id, 0, ia.err)

\* fetchLogs: ContainerLogs, then io.ReadAll of the stream, which is no further call
LogsCall(id, n, lg) == Call("ContainerLogs", id, n, lg.err)

\* fetchLogs: the text and the error it returns
fetchLogs(lg) ==
    IF lg.err # NoErr THEN [text |-> <<>>, err |-> lg.err]
    ELSE IF lg.readErr # NoErr THEN [text |-> <<>>, err |-> lg.readErr]
    ELSE [text |-> TrimSpace(StripCR(lg.data)), err |-> NoErr]

----------------------------------------------------------------------------
(* Pane contents *)

Header == <<"[::b]Name", "[::b]Image", "[::b]State", "[::b]Status", "[::b]Ports">>

EmptyDetails == [kind |-> "empty", err |-> NoErr, Name |-> <<>>, ID |-> 0, Image |-> "",
                 State |-> "", Status |-> "", hasStarted |-> FALSE, ago |-> Rel(0, "")]

\* "No containers found."
NoneFound == [EmptyDetails EXCEPT !.kind = "No containers found."]

\* "[red]Inspect error: <err>"
InspectError(err) == [EmptyDetails EXCEPT !.kind = "inspect error", !.err = err]

\* the detail block of showForRow (lines 179-189); the absolute start time of
\* the Started line is not modelled, its "(... ago)" part is
DetailBlock(c, ia) ==
    LET started == parseTime(ia.StartedAt) IN
    [kind |-> "block", err |-> NoErr, Name |-> c.Name, ID |-> c.ID, Image |-> c.Image,
     State |-> ia.Status, Status |-> c.Status,
     hasStarted |-> ~IsZero(started),
     ago |-> IF ~IsZero(started) THEN since(started.age) ELSE Rel(0, "")]

\* what showForRow writes to the Details pane
DetailsText(c, ia) == IF ia.err # NoErr THEN InspectError(ia.err) ELSE DetailBlock(c, ia)

LogsPane(kind, text, err) == [kind |-> kind, text |-> text, err |-> err]

EmptyLogs == LogsPane("text", <<>>, NoErr)

\* what showForRow writes to the Logs pane (lines 191-199)
LogsText(lg) ==
    LET r == fetchLogs(lg) IN
    IF r.err # NoErr THEN LogsPane("logs error", <<>>, r.err)
    ELSE IF TrimSpace(r.text) = <<>> THEN LogsPane("text", NoLogs, NoErr)
    ELSE LogsPane("text", r.text, NoErr)

StatusText(kind, n, err) == [kind |-> kind, n |-> n, err |-> err]

----------------------------------------------------------------------------
(* The view model built by refresh *)

\* the ContainerSummary of one record (lines 139-148)
Summary(ctn) ==
    [ID |-> ctn.ID, Name |-> firstName(ctn.Names), Image |-> ctn.Image,
     State |-> ctn.State, Status |-> ctn.Status, Ports |-> formatPorts(ctn.Ports)]

\* the cells of one data row (lines 150-154)
RowCells(ctn) ==
    LET summary == Summary(ctn) IN
    <<firstName(ctn.Names), ctn.Image, summary.State, summary.Status, summary.Ports>>

\* the summary list of refresh: sort (lines 124-130), then one summary per record
BuildSummaries(records) ==
    LET sorted == SliceStable(records) IN
    [r \in 1..Len(sorted) |-> Summary(sorted[r])]

\* the table filled in the daemon's order
BuildTableUnsorted(records) ==
    <<Header>> \o [r \in 1..Len(records) |-> RowCells(records[r])]

\* the table of refresh: header row, then one row per sorted record
BuildTable(records) ==
    LET sorted == SliceStable(records) IN
    <<Header>> \o [r \in 1..Len(sorted) |-> RowCells(sorted[r])]

----------------------------------------------------------------------------
(* Handlers *)

\* showForRow without the upper bound check: the read past the list is made
showForRowNoUpperBound(cs, row, ia, lg, d, l) ==
    LET idx == row - 1 IN
    IF idx < 0
    THEN [details |-> d, logs |-> l, calls |-> <<>>, lookups |-> <<>>]
    ELSE IF idx >= Len(cs)
    THEN [details |-> d, logs |-> l, calls |-> <<>>, lookups |-> <<idx>>]
    ELSE LET c == cs[idx + 1] IN
         [details |-> DetailsText(c, ia),
          logs |-> LogsText(lg),
          calls |-> InspectCall(c.ID, ia) \o LogsCall(c.ID, TailCount, lg),
          lookups |-> <<idx>>]

\* showForRow returning after a failed inspect call
showForRowStopsOnError(cs, row, ia, lg, d, l) ==
    LET idx == row - 1 IN
    IF idx < 0 \/ idx >= Len(cs)
    THEN [details |-> d, logs |-> l, calls |-> <<>>, lookups |-> <<>>]
    ELSE LET c == cs[idx + 1] IN
         IF ia.err # NoErr
         THEN [details |-> DetailsText(c, ia), logs |-> l,
               calls |-> InspectCall(c.ID, ia), lookups |-> <<idx>>]
         ELSE [details |-> DetailsText(c, ia),
               logs |-> LogsText(lg),
               calls |-> InspectCall(c.ID, ia) \o LogsCall(c.ID, TailCount, lg),
               lookups |-> <<idx>>]

\* showForRow(row) with the daemon answering ia and lg, on summary list cs and
\* panes d and l: the panes, the calls and the list indices read
showForRow(cs, row, ia, lg, d, l) ==
    LET idx == row - 1 IN
    IF idx < 0 \/ idx >= Len(cs)
    THEN [details |-> d, logs |-> l, calls |-> <<>>, lookups |-> <<>>]
    ELSE LET c == cs[idx + 1] IN
         [details |-> DetailsText(c, ia),
          logs |-> LogsText(lg),
          calls |-> InspectCall(c.ID, ia) \o LogsCall(c.ID, TailCount, lg),
          lookups |-> <<idx>>]

\* the fields of the application that refresh and showForRow write
AppState ==
    [containers |-> containers, table |-> table, selectedRow |-> selectedRow,
     details |-> details, logs |-> logs, statusBar |-> statusBar]

\* refresh clearing the list and the table before the list call
refreshClearsFirst(a, la, ia, lg) ==
    IF la.err # NoErr
    THEN [app |-> [a EXCEPT !.containers = <<>>, !.table = <<Header>>],
          calls |-> ListCall(la), lookups |-> <<>>, err |-> la.err]
    ELSE LET cs == BuildSummaries(la.list) IN
         IF Len(cs) > 0
         THEN LET shown == showForRow(cs, 1, ia, lg, a.details, a.logs) IN
              [app |-> [containers |-> cs, table |-> BuildTable(la.list), selectedRow |-> 1,
                        details |-> shown.details, logs |-> shown.logs,
                        statusBar |-> StatusText("Refreshed", Len(cs), NoErr)],
               calls |-> ListCall(la) \o shown.calls,
               lookups |-> shown.lookups, err |-> NoErr]
         ELSE [app |-> [containers |-> cs, table |-> BuildTable(la.list),
                        selectedRow |-> a.selectedRow,
                        details |-> NoneFound, logs |-> EmptyLogs,
                        statusBar |-> StatusText("Refreshed", 0, NoErr)],
               calls |-> ListCall(la), lookups |-> <<>>, err |-> NoErr]

\* refresh leaving the panes alone when the list is empty
refreshKeepsPanes(a, la, ia, lg) ==
    IF la.err # NoErr
    THEN [app |-> a, calls |-> ListCall(la), lookups |-> <<>>, err |-> la.err]
    ELSE LET cs == BuildSummaries(la.list) IN
         IF Len(cs) > 0
         THEN LET shown == showForRow(cs, 1, ia, lg, a.details, a.logs) IN
              [app |-> [containers |-> cs, table |-> BuildTable(la.list), selectedRow |-> 1,
                        details |-> shown.details, logs |-> shown.logs,
                        statusBar |-> StatusText("Refreshed", Len(cs), NoErr)],
               calls |-> ListCall(la) \o shown.calls,
               lookups |-> shown.lookups, err |-> NoErr]
         ELSE [app |-> [containers |-> cs, table |-> BuildTable(la.list),
                        selectedRow |-> a.selectedRow,
                        details |-> a.details, logs |-> a.logs,
                        statusBar |-> StatusText("Refreshed", 0, NoErr)],
               calls |-> ListCall(la), lookups |-> <<>>, err |-> NoErr]

\* refresh without the Select(1, 0) of line 158
refreshKeepsSelection(a, la, ia, lg) ==
    IF la.err # NoErr
    THEN [app |-> a, calls |-> ListCall(la), lookups |-> <<>>, err |-> la.err]
    ELSE LET cs == BuildSummaries(la.list) IN
         IF Len(cs) > 0
         THEN LET shown == showForRow(cs, 1, ia, lg, a.details, a.logs) IN
              [app |-> [containers |-> cs, table |-> BuildTable(la.list), selectedRow |-> a.selectedRow,
                        details |-> shown.details, logs |-> shown.logs,
                        statusBar |-> StatusText("Refreshed", Len(cs), NoErr)],
               calls |-> ListCall(la) \o shown.calls,
               lookups |-> shown.lookups, err |-> NoErr]
         ELSE [app |-> [containers |-> cs, table |-> BuildTable(la.list),
                        selectedRow |-> a.selectedRow,
                        details |-> NoneFound, logs |-> EmptyLogs,
                        statusBar |-> StatusText("Refreshed", 0, NoErr)],
               calls |-> ListCall(la), lookups |-> <<>>, err |-> NoErr]

\* refresh() with the daemon answering la, ia and lg, from application state a:
\* the state it leaves, its calls, the indices read and the error returned
refresh(a, la, ia, lg) ==
    IF la.err # NoErr
    THEN [app |-> a, calls |-> ListCall(la), lookups |-> <<>>, err |-> la.err]
    ELSE LET cs == BuildSummaries(la.list) IN
         IF Len(cs) > 0
         THEN LET shown == showForRow(cs, 1, ia, lg, a.details, a.logs) IN
              [app |-> [containers |-> cs, table |-> BuildTable(la.list), selectedRow |-> 1,
                        details |-> shown.details, logs |-> shown.logs,
                        statusBar |-> StatusText("Refreshed", Len(cs), NoErr)],
               calls |-> ListCall(la) \o shown.calls,
               lookups |-> shown.lookups, err |-> NoErr]
         ELSE [app |-> [containers |-> cs, table |-> BuildTable(la.list),
                        selectedRow |-> a.selectedRow,
                        details |-> NoneFound, logs |-> EmptyLogs,
                        statusBar |-> StatusText("Refreshed", 0, NoErr)],
               calls |-> ListCall(la), lookups |-> <<>>, err |-> NoErr]

Event(kind, row, la, ia, lg) == [kind |-> kind, row |-> row, la |-> la, ia |-> ia, lg |-> lg]

NoList == [err |-> NoErr, list |-> <<>>]

\* refresh, and its caller's setStatus with errKind when it returns an error
RefreshWith(kind, errKind, la, ia, lg) ==
    \E r \in {refresh(AppState, la, ia, lg)} :
    /\ containers' = r.app.containers
    /\ table' = r.app.table
    /\ selectedRow' = r.app.selectedRow
    /\ details' = r.app.details
    /\ logs' = r.app.logs
    /\ statusBar' = IF r.err # NoErr THEN StatusText(errKind, 0, r.err) ELSE r.app.statusBar
    /\ calls' = r.calls
    /\ lookups' = r.lookups
    /\ ev' = Event(kind, 0, la, ia, lg)

\* the daemon's answers to one refresh: the inspect and log answers are asked
\* for only after a non-empty list
RefreshAnswers(kind, errKind) ==
    \E la \in ListAnswers :
        IF la.err = NoErr /\ Len(la.list) > 0
        THEN \E ia \in InspectAnswers, lg \in LogAnswers : RefreshWith(kind, errKind, la, ia, lg)
        ELSE RefreshWith(kind, errKind, la, NoInspect, NoLog)

\* main, lines 55-59: the first refresh, then the UI loop
Startup ==
    /\ pc = "startup"
    /\ RefreshAnswers("startup", "Error loading containers")
    /\ pc' = "running"
    /\ UNCHANGED <<sortVars, sinceVars>>

\* the input capture on 'r' / 'R' (lines 87-91)
RefreshKey ==
    /\ pc = "running"
    /\ RefreshAnswers("refresh", "Refresh error")
    /\ UNCHANGED <<pc, sortVars, sinceVars>>

\* showForRow on the selected row
ActivateWith(ia, lg) ==
    \E shown \in {showForRow(containers, selectedRow, ia, lg, details, logs)} :
        /\ details' = shown.details
        /\ logs' = shown.logs
        /\ calls' = shown.calls
        /\ lookups' = shown.lookups
        /\ ev' = Event("activate", selectedRow, NoList, ia, lg)

\* the table's selected function (lines 74-76): Enter or a click activates the
\* selected row; the daemon is asked only when the row is one of the list
Activate ==
    /\ pc = "running"
    /\ IF selectedRow >= 1 /\ selectedRow <= Len(containers)
       THEN \E ia \in InspectAnswers, lg \in LogAnswers : ActivateWith(ia, lg)
       ELSE ActivateWith(NoInspect, NoLog)
    /\ UNCHANGED <<pc, containers, table, selectedRow, statusBar, sortVars, sinceVars>>

\* any other key passes to the table (line 93), which moves its selection; the
\* row it ends on is the toolkit's choice
Navigate ==
    /\ pc = "running"
    /\ \E row \in 0..(MaxLen + 1) :
          /\ selectedRow' = row
          /\ ev' = Event("navigate", row, NoList, NoInspect, NoLog)
    /\ calls' = <<>>
    /\ lookups' = <<>>
    /\ UNCHANGED <<pc, containers, table, details, logs, statusBar, sortVars, sinceVars>>

\* 'q' / 'Q' (lines 84-86) or Escape (lines 77-81): ui.Stop()
Quit ==
    /\ pc = "running"
    /\ pc' = "stopped"
    /\ calls' = <<>>
    /\ lookups' = <<>>
    /\ ev' = Event("quit", 0, NoList, NoInspect, NoLog)
    /\ UNCHANGED <<containers, table, selectedRow, details, logs, statusBar, sortVars, sinceVars>>

\* the application after setupUI, before the first refresh
Init ==
    /\ pc = "startup"
    /\ containers = <<>>
    /\ table = <<Header>>
    /\ selectedRow = 0
    /\ details = EmptyDetails
    /\ logs = EmptyLogs
    /\ statusBar = StatusText("", 0, NoErr)
    /\ calls = <<>>
    /\ lookups = <<>>
    /\ ev = Event("init", 0, NoList, NoInspect, NoLog)
    /\ sortIn = <<>>
    /\ sortOut = <<>>
    /\ elapsed = 0
    /\ ago = Rel(0, "")

Next == Startup \/ RefreshKey \/ Activate \/ Navigate \/ Quit

Spec == Init /\ [][Next]_vars

----------------------------------------------------------------------------
(* The list builder alone, on longer lists and more states *)

SortInit ==
    /\ pc = "build"
    /\ sortIn \in UNION { RecordLists(n, SortNameLists, SortStates) : n \in 0..MaxSortLen }
    /\ sortOut = <<>>
    /\ containers = <<>>
    /\ table = <<Header>>
    /\ selectedRow = 0
    /\ details = EmptyDetails
    /\ logs = EmptyLogs
    /\ statusBar = StatusText("", 0, NoErr)
    /\ calls = <<>>
    /\ lookups = <<>>
    /\ ev = Event("init", 0, NoList, NoInspect, NoLog)
    /\ elapsed = 0
    /\ ago = Rel(0, "")

\* lines 124-155 of refresh on the list sortIn
Build ==
    /\ pc = "build"
    /\ sortOut' = BuildSummaries(sortIn)
    /\ pc' = "built"
    /\ UNCHANGED <<sortIn, uiVars, sinceVars>>

SortNext == Build

SortSpec == SortInit /\ [][SortNext]_vars

----------------------------------------------------------------------------
(* The relative-time string alone *)

SinceInit ==
    /\ pc = "since"
    /\ elapsed \in 0..MaxElapsed
    /\ ago = Rel(0, "")
    /\ containers = <<>>
    /\ table = <<Header>>
    /\ selectedRow = 0
    /\ details = EmptyDetails
    /\ logs = EmptyLogs
    /\ statusBar = StatusText("", 0, NoErr)
    /\ calls = <<>>
    /\ lookups = <<>>
    /\ ev = Event("init", 0, NoList, NoInspect, NoLog)
    /\ sortIn = <<>>
    /\ sortOut = <<>>

\* line 187: since(started), time.Since(started) being elapsed
Format ==
    /\ pc = "since"
    /\ ago' = since(elapsed)
    /\ pc' = "formatted"
    /\ UNCHANGED <<elapsed, uiVars, sortVars>>

SinceNext == Format

SinceSpec == SinceInit /\ [][SinceNext]_vars

----------------------------------------------------------------------------
(* Properties *)

IsRefresh == ev.kind \in {"startup", "refresh"}
RefreshedEmpty == IsRefresh /\ ev.la.err = NoErr /\ Len(ev.la.list) = 0
RefreshedSome == IsRefresh /\ ev.la.err = NoErr /\ Len(ev.la.list) > 0
ActivatedValid == ev.kind = "activate" /\ ev.row >= 1 /\ ev.row <= Len(containers)

\* the remote calls issued by the last handler, in order, as <<op, id, tail>>
Issued ==
    LET cs == SelectSeq(calls, LAMBDA c : c.e = "call") IN
    [i \in 1..Len(cs) |-> <<cs[i].op, cs[i].id, cs[i].tail>>]

\* calls issued and not yet returned after the first k events of the last handler
Outstanding(k) ==
    Cardinality({i \in 1..k : calls[i].e = "call"}) -
    Cardinality({i \in 1..k : calls[i].e = "return"})

AllWhite(s) == \A i \in 1..Len(s) : s[i] \in WhiteSpace

\* C1: in the built summary list, two records of the same state are in ascending
\* order of primary name, and two of the same state and name are in input order
\* (a record's identifier is its input position), also when several distinct
\* non-running states are mixed
C1_SameStateByName ==
    pc = "built" =>
        \A i, j \in 1..Len(sortOut) :
            (i < j /\ sortOut[i].State = sortOut[j].State) =>
                /\ ~StrLess(sortOut[j].Name, sortOut[i].Name)
                /\ sortOut[i].Name = sortOut[j].Name => sortOut[i].ID < sortOut[j].ID

\* C2: the built summary list has one summary per input record, each record's
\* own, and every running record precedes every record that is not running
C2_PermutationRunningFirst ==
    pc = "built" =>
        /\ Len(sortOut) = Len(sortIn)
        /\ {sortOut[i].ID : i \in 1..Len(sortOut)} = 1..Len(sortIn)
        /\ \A i \in 1..Len(sortOut) :
              LET rec == sortIn[sortOut[i].ID] IN
              /\ sortOut[i].State = rec.State
              /\ sortOut[i].Image = rec.Image
              /\ sortOut[i].Status = rec.Status
              /\ sortOut[i].Name = firstName(rec.Names)
        /\ \A i, j \in 1..Len(sortOut) :
              (sortOut[i].State # "running" /\ sortOut[j].State = "running") => j < i

\* a list of three in which a record that is not running comes before a running one
C2_Witness ==
    /\ pc = "built"
    /\ Len(sortIn) >= 3
    /\ sortIn[1].State = "paused"
    /\ sortIn[2].State = "exited"
    /\ sortIn[3].State = "running"
    /\ sortOut[1].ID = 3

\* C3: a refresh whose list call fails leaves the summary list, the table rows,
\* the selection and both panes as they were, writes the error to the status
\* line, and issues no inspect or log call
C3_FailedRefreshKeepsView ==
    [][ (ev'.kind \in {"startup", "refresh"} /\ ev'.la.err # NoErr) =>
            /\ containers' = containers
            /\ table' = table
            /\ selectedRow' = selectedRow
            /\ details' = details
            /\ logs' = logs
            /\ statusBar'.kind =
                 (IF ev'.kind = "startup" THEN "Error loading containers" ELSE "Refresh error")
            /\ statusBar'.err = ev'.la.err
            /\ Issued' = << <<"ContainerList", 0, 0>> >> ]_vars

\* a failed refresh over a view that shows two containers and a detail block
C3_Witness ==
    /\ ev.kind = "refresh"
    /\ ev.la.err # NoErr
    /\ Len(containers) = 2
    /\ selectedRow = 2
    /\ details.kind = "block"
    /\ statusBar.kind = "Refresh error"

\* C4: every index that show reads is an index of the current summary list, and
\* activating the header row or a row beyond the list issues no call and leaves
\* both panes as they were
C4_NoStaleIndex ==
    /\ [](\A k \in 1..Len(lookups) : lookups[k] >= 0 /\ lookups[k] < Len(containers))
    /\ [][ (ev'.kind = "activate" /\ (ev'.row = 0 \/ ev'.row > Len(containers'))) =>
              /\ calls' = <<>>
              /\ lookups' = <<>>
              /\ details' = details
              /\ logs' = logs ]_vars

\* row 2 is activated when the list has shrunk to one container
C4_Witness ==
    /\ ev.kind = "activate"
    /\ ev.row = 2
    /\ Len(containers) = 1
    /\ calls = <<>>

\* C5: when show runs on a valid row, the log call is issued whatever the
\* inspect call returned; the Details pane is the inline error or the detail
\* block according to the inspect answer alone, and the Logs pane is the inline
\* error, the placeholder or the fetched text according to the log answer alone
C5_PanesIndependent ==
    (ActivatedValid \/ RefreshedSome) =>
        /\ \E k \in 1..Len(Issued) : Issued[k][1] = "ContainerLogs"
        /\ IF ev.ia.err # NoErr
           THEN details.kind = "inspect error" /\ details.err = ev.ia.err
           ELSE /\ details.kind = "block"
                /\ details.State = ev.ia.Status
                /\ details.hasStarted = (ev.ia.StartedAt.valid /\ ~ev.ia.StartedAt.zero)
        /\ IF ev.lg.err # NoErr \/ ev.lg.readErr # NoErr
           THEN logs.kind = "logs error" /\ logs.err \in {ev.lg.err, ev.lg.readErr} \ {NoErr}
           ELSE /\ logs.kind = "text"
                /\ AllWhite(ev.lg.data) => logs.text = NoLogs
                /\ ~AllWhite(ev.lg.data) =>
                      /\ logs.text # NoLogs
                      /\ Len(logs.text) > 0
                      /\ \A i \in 1..Len(logs.text) : logs.text[i] # CR

\* the inspect call fails and the log call succeeds: inline error and fetched text
C5_Witness ==
    /\ ActivatedValid
    /\ ev.ia.err # NoErr
    /\ details.kind = "inspect error"
    /\ logs.kind = "text"
    /\ logs.text = <<120, 10, 121>>

\* C6: after a refresh that succeeds with an empty list the table has only the
\* header row, the summary list is empty, the Details pane reads "No containers
\* found.", the Logs pane is empty, and the list call is the only call
C6_EmptyRefresh ==
    RefreshedEmpty =>
        /\ table = <<Header>>
        /\ containers = <<>>
        /\ details.kind = "No containers found."
        /\ logs = EmptyLogs
        /\ Issued = << <<"ContainerList", 0, 0>> >>

\* an empty list on the refresh key, with the selection left on a row that is gone
C6_Witness ==
    /\ ev.kind = "refresh"
    /\ RefreshedEmpty
    /\ selectedRow = 2
    /\ Len(table) = 1

\* C7: after a refresh that succeeds with a non-empty list the selection is data
\* row 1, and the inspect and log calls carry the identifier of the first
\* summary in sorted order: a running one if any record is running, and of the
\* least name among those of its state
C7_FirstRowShown ==
    RefreshedSome =>
        /\ selectedRow = 1
        /\ Issued = << <<"ContainerList", 0, 0>>,
                       <<"ContainerInspect", containers[1].ID, 0>>,
                       <<"ContainerLogs", containers[1].ID, TailCount>> >>
        /\ \A k \in 1..Len(ev.la.list) :
              LET rec == ev.la.list[k] IN
              /\ rec.State = "running" => containers[1].State = "running"
              /\ rec.State = containers[1].State =>
                    ~StrLess(firstName(rec.Names), containers[1].Name)
        /\ \E k \in 1..Len(ev.la.list) :
              /\ ev.la.list[k].ID = containers[1].ID
              /\ firstName(ev.la.list[k].Names) = containers[1].Name
              /\ ev.la.list[k].State = containers[1].State

\* the daemon lists exited "b" before running "a": "a" is shown, with its identifier
C7_Witness ==
    /\ ev.kind = "refresh"
    /\ RefreshedSome
    /\ Len(ev.la.list) = 2
    /\ ev.la.list[1].State = "exited"
    /\ ev.la.list[2].State = "running"
    /\ containers[1].ID = 2
    /\ Issued[2] = <<"ContainerInspect", 2, 0>>

\* C8: an activation of a valid row issues exactly one inspect call and then
\* one log call with tail 5, whatever either returns; a refresh issues exactly
\* one list call, followed by one inspect and one log call exactly when the list
\* call succeeded with a non-empty list; no other handler issues a call; and no
\* call is issued while another is outstanding
C8_OneCallEach ==
    /\ ActivatedValid =>
          Issued = << <<"ContainerInspect", containers[ev.row].ID, 0>>,
                      <<"ContainerLogs", containers[ev.row].ID, TailCount>> >>
    /\ (ev.kind = "activate" /\ ~ActivatedValid) => Issued = <<>>
    /\ IsRefresh =>
          /\ Len(Issued) = (IF RefreshedSome THEN 3 ELSE 1)
          /\ Issued[1] = <<"ContainerList", 0, 0>>
          /\ RefreshedSome =>
                /\ Issued[2][1] = "ContainerInspect"
                /\ Issued[3][1] = "ContainerLogs"
                /\ Issued[3][3] = TailCount
    /\ ev.kind \in {"init", "navigate", "quit"} => Issued = <<>>
    /\ \A k \in 0..Len(calls) : Outstanding(k) \in {0, 1}

\* an activation in which both calls fail
C8_Witness ==
    /\ ActivatedValid
    /\ ev.ia.err # NoErr
    /\ ev.lg.err # NoErr
    /\ Len(Issued) = 2

\* C9: the relative-time string of an elapsed time of d whole seconds is
\* d seconds below a minute, the whole minutes below an hour, the whole hours
\* below a day and the whole days from a day on
C9_Buckets ==
    pc = "formatted" =>
        /\ elapsed < 60 => ago = Rel(elapsed, "seconds")
        /\ (60 <= elapsed /\ elapsed < 3600) =>
              ago.unit = "minutes" /\ ago.n * 60 <= elapsed /\ elapsed < (ago.n + 1) * 60
        /\ (3600 <= elapsed /\ elapsed < 86400) =>
              ago.unit = "hours" /\ ago.n * 3600 <= elapsed /\ elapsed < (ago.n + 1) * 3600
        /\ 86400 <= elapsed =>
              ago.unit = "days" /\ ago.n * 86400 <= elapsed /\ elapsed < (ago.n + 1) * 86400
        /\ elapsed = 45 => ago = Rel(45, "seconds")
        /\ elapsed = 60 => ago = Rel(1, "minutes")
        /\ elapsed = 90 => ago = Rel(1, "minutes")
        /\ elapsed = 7200 => ago = Rel(2, "hours")
        /\ elapsed = 172800 => ago = Rel(2, "days")

\* two days exactly
C9_Witness ==
    /\ pc = "formatted"
    /\ elapsed = 172800
    /\ ago = Rel(2, "days")

\* C10: the table always has the header row and one data row per summary, data
\* row r rendering summary r-1's fields, and an activation of data row r
\* inspects and fetches the logs of the container that row displays
C10_RowsMatchList ==
    /\ Len(table) = 1 + Len(containers)
    /\ table[1] = Header
    /\ \A r \in 1..Len(containers) :
          LET c == containers[r] IN
          table[r + 1] = <<c.Name, c.Image, c.State, c.Status, c.Ports>>
    /\ ActivatedValid =>
          /\ Issued[1][2] = containers[ev.row].ID
          /\ Issued[2][2] = containers[ev.row].ID
          /\ details.kind = "block" =>
                /\ details.Name = table[ev.row + 1][1]
                /\ details.Image = table[ev.row + 1][2]

\* data row 2 is activated after a refresh that reordered the daemon's list
C10_Witness ==
    /\ ActivatedValid
    /\ ev.row = 2
    /\ Len(containers) = 2
    /\ containers[2].ID = 1
    /\ details.kind = "block"
    /\ details.ID = 1

====
